---- MODULE Spec2Model ----
(***************************************************************************)
(* Model of QuantumRollCall (RollCall.py): the name roster                 *)
(* (NameListManager), the roll-call page that drives it                    *)
(* (RollCallInterface / MainWindow / SettingsInterface handlers) and the   *)
(* countdown page (TimerInterface).                                        *)
(***************************************************************************)
EXTENDS Integers, Sequences, FiniteSets, TLC

\* ---------------------------------------------------------------- bounds
\* number of distinct non-empty names the user can type
MaxNames == 2
\* number of digit edits (plus / minus clicks) in one behaviour
MaxEdits == 2
\* number of 1-second timer ticks delivered after one start()
MaxTicks == 4
\* number of successful start() calls in one behaviour
MaxStarts == 2
\* number of names in the rosters of the add/remove and draw-all scenarios
MaxRoster == 3
\* largest hour count handed to _seconds_to_digits
MaxHours == 100
\* update checks made, download threads started, progress signals per thread
MaxChecks == 3
MaxWorkers == 2
MaxProgress == 1

\* ------------------------------------------------------------- constants
AllNames == <<"A", "B", "C", "D", "E">>
NameUniverse == {AllNames[i] : i \in 1..MaxNames}
RosterUniverse == {AllNames[i] : i \in 1..MaxRoster}
\* Python's None and the empty string (both falsy)
None == "None"
EmptyName == ""
\* texts of the name_display label
ReadyText == "READY"
ReloadedText == "RELOADED"
\* Python's True / False as returned values
PyTrue == "True"
PyFalse == "False"
\* _pre_start_seconds = None
NoSeconds == -1

VARIABLES
    \* NameListManager
    names, used_names,
    \* RollCallInterface and Settings
    is_rolling, roll_timer_active, last_selected_name, name_display,
    avoid_repetition,
    \* TimerInterface
    digits, max_digit, is_running, timer_active, pre_start_seconds,
    initial_seconds,
    \* observation of the last call: what was called, with what, its result
    call, ret,
    \* observation of the countdown: ticks and expiry notices since the last
    \* successful start(), and the budget counters of the bounds
    ticks, expired, edits, starts,
    \* the duration of the start() that began the current countdown: a
    \* start() that directly follows a pause is its resume and keeps it
    origin_seconds,
    \* names returned by the draws of the draw-all scenario
    drawn,
    \* a conversion round trip: the input and the values computed from it
    conv,
    \* Update.py: the position of main(), what the run meets (which copies
    \* raise, listing order, whether kill / delete / Popen work, the trees
    \* at the start), the staged tree, the installed files, the copy log,
    \* the results, and the steps main() has performed
    upd_pc, upd_env, update_exists, staged, install, events, copy_ret,
    main_ret, launched, steps,
    \* the update check of the settings page: the installed version, the
    \* notices shown so far, the download info bar, each download thread's
    \* state and the signals it emitted, the signals queued for the GUI
    \* thread, the threads each kind of work ran on, the checks made, and
    \* whether the application was told to quit
    settings_version, notices, download_info_bar, worker, emitted,
    signal_queue, ran_on, checks, app_quit

managerVars == <<names, used_names>>
rollVars == <<is_rolling, roll_timer_active, last_selected_name, name_display,
              avoid_repetition>>
timerVars == <<digits, max_digit, is_running, timer_active, pre_start_seconds,
               initial_seconds>>
timerObs == <<ticks, expired, edits, starts, origin_seconds>>
vars == <<names, used_names, is_rolling, roll_timer_active, last_selected_name,
          name_display, avoid_repetition, digits, max_digit, is_running,
          timer_active, pre_start_seconds, initial_seconds, call, ret, ticks,
          expired, edits, starts, origin_seconds, drawn, conv, upd_pc, upd_env,
          update_exists, staged, install, events, copy_ret, main_ret, launched,
          steps, settings_version, notices, download_info_bar, worker, emitted,
          signal_queue, ran_on, checks, app_quit>>
chkVars == <<settings_version, notices, download_info_bar, worker, emitted,
             signal_queue, ran_on, checks, app_quit>>
updVars == <<upd_pc, upd_env, update_exists, staged, install, events, copy_ret,
             main_ret, launched, steps>>

Call(op, name, flag, pos) == [op |-> op, name |-> name, flag |-> flag, pos |-> pos]
NoCall == Call("init", None, FALSE, 0)
Bool(b) == IF b THEN PyTrue ELSE PyFalse

\* ------------------------------------------------------- NameListManager
Truthy(name) == name # None /\ name # EmptyName

Contains(ns, name) == \E i \in 1..Len(ns) : ns[i] = name

Elements(ns) == {ns[i] : i \in 1..Len(ns)}

\* list.remove(name): drops the first occurrence
ListRemove(ns, name) ==
    LET i == CHOOSE k \in 1..Len(ns) : ns[k] = name /\ \A j \in 1..(k-1) : ns[j] # name
    IN  SubSeq(ns, 1, i-1) \o SubSeq(ns, i+1, Len(ns))

\* variant: the duplicate test of add_name is left out
AddAcceptedNoDuplicateTest(ns, name) == Truthy(name)

AddAccepted(ns, name) == Truthy(name) /\ ~Contains(ns, name)

NamesAfterAdd(ns, name) == IF AddAccepted(ns, name) THEN Append(ns, name) ELSE ns

NamesAfterRemove(ns, name) == IF Contains(ns, name) THEN ListRemove(ns, name) ELSE ns

\* variant: remove_name adds to used_names where it should discard
UsedAfterRemoveAdding(ns, u, name) == IF Contains(ns, name) THEN u \cup {name} ELSE u

UsedAfterRemove(ns, u, name) == IF Contains(ns, name) THEN u \ {name} ELSE u

AvailableNames(ns, u) == SelectSeq(ns, LAMBDA n : n \notin u)

get_available_names == AvailableNames(names, used_names)

\* variant: the draw ignores used_names
CandidatesIgnoringUsed(ns, u, avoid) == ns

\* the candidates random.choice draws from; empty means "return None"
Candidates(ns, u, avoid) == IF avoid THEN AvailableNames(ns, u) ELSE ns

RandomResults(ns, u, avoid) ==
    IF Candidates(ns, u, avoid) = <<>> THEN {None}
    ELSE Elements(Candidates(ns, u, avoid))

\* variant: the avoid_repetition test of mark_name_as_used is inverted
UsedAfterMarkInverted(u, name, avoid) == IF ~avoid /\ Truthy(name) THEN u \cup {name} ELSE u

UsedAfterMark(u, name, avoid) == IF avoid /\ Truthy(name) THEN u \cup {name} ELSE u

\* variant: > where the source has >=
IsCompleteStrict(ns, u, avoid) == avoid /\ Cardinality(u) > Len(ns) /\ Len(ns) > 0

IsComplete(ns, u, avoid) == avoid /\ Cardinality(u) >= Len(ns) /\ Len(ns) > 0

UsedAfterCheck(ns, u, avoid) == IF IsComplete(ns, u, avoid) THEN {} ELSE u

add_name(name) ==
    /\ names' = NamesAfterAdd(names, name)
    /\ used_names' = used_names
    /\ ret' = Bool(AddAccepted(names, name))
    /\ call' = Call("add_name", name, FALSE, 0)

remove_name(name) ==
    /\ names' = NamesAfterRemove(names, name)
    /\ used_names' = UsedAfterRemove(names, used_names, name)
    /\ ret' = Bool(Contains(names, name))
    /\ call' = Call("remove_name", name, FALSE, 0)

clear_names ==
    /\ names' = <<>>
    /\ used_names' = {}
    /\ ret' = None
    /\ call' = Call("clear_names", None, FALSE, 0)

reset_used_names ==
    /\ names' = names
    /\ used_names' = {}
    /\ ret' = None
    /\ call' = Call("reset_used_names", None, FALSE, 0)

\* variant: the draw marks the name as used (as the earlier revision
\* in Main.py did)
get_random_name_marking(avoid) ==
    /\ ret' \in RandomResults(names, used_names, avoid)
    /\ used_names' = UsedAfterMark(used_names, ret', avoid)
    /\ names' = names
    /\ call' = Call("get_random_name", None, avoid, 0)

get_random_name(avoid) ==
    /\ ret' \in RandomResults(names, used_names, avoid)
    /\ UNCHANGED managerVars
    /\ call' = Call("get_random_name", None, avoid, 0)

mark_name_as_used(name, avoid) ==
    /\ used_names' = UsedAfterMark(used_names, name, avoid)
    /\ names' = names
    /\ ret' = None
    /\ call' = Call("mark_name_as_used", name, avoid, 0)

check_and_reset_if_complete(avoid) ==
    /\ used_names' = UsedAfterCheck(names, used_names, avoid)
    /\ names' = names
    /\ ret' = Bool(IsComplete(names, used_names, avoid))
    /\ call' = Call("check_and_reset_if_complete", None, avoid, 0)

\* ---------------------------------- RollCallInterface / MainWindow handlers
\* stop_roll_call commits the displayed name only in avoid-repetition mode
StopCommits(last, avoid) == Truthy(last) /\ avoid

UsedAfterStop(ns, u, last, avoid) ==
    IF StopCommits(last, avoid)
    THEN UsedAfterCheck(ns, UsedAfterMark(u, last, avoid), avoid)
    ELSE u

DisplayAfterStop(ns, u, last, avoid, disp) ==
    IF StopCommits(last, avoid) /\ IsComplete(ns, UsedAfterMark(u, last, avoid), avoid)
    THEN ReloadedText
    ELSE disp

start_roll_call ==
    /\ IF names = <<>>
       THEN UNCHANGED <<is_rolling, roll_timer_active>>
       ELSE is_rolling' = TRUE /\ roll_timer_active' = TRUE
    /\ UNCHANGED <<last_selected_name, name_display, avoid_repetition>>
    /\ UNCHANGED managerVars
    /\ ret' = None
    /\ call' = Call("start_roll_call", None, FALSE, 0)

stop_roll_call ==
    /\ is_rolling' = FALSE
    /\ roll_timer_active' = FALSE
    /\ used_names' = UsedAfterStop(names, used_names, last_selected_name, avoid_repetition)
    /\ name_display' = DisplayAfterStop(names, used_names, last_selected_name,
                                        avoid_repetition, name_display)
    /\ UNCHANGED <<names, last_selected_name, avoid_repetition>>
    /\ ret' = None
    /\ call' = Call("stop_roll_call", last_selected_name, avoid_repetition, 0)

toggle_roll_call ==
    \/ is_rolling /\ stop_roll_call
    \/ ~is_rolling /\ start_roll_call

\* the 50 ms QTimer callback
update_name ==
    /\ roll_timer_active
    /\ \E name \in RandomResults(names, used_names, avoid_repetition) :
          /\ name_display' = IF Truthy(name) THEN name ELSE ReadyText
          /\ last_selected_name' = IF Truthy(name) THEN name ELSE None
          /\ ret' = name
    /\ UNCHANGED <<is_rolling, roll_timer_active, avoid_repetition>>
    /\ UNCHANGED managerVars
    /\ call' = Call("update_name", None, avoid_repetition, 0)

reload_names ==
    /\ is_rolling' = FALSE
    /\ roll_timer_active' = (IF is_rolling THEN FALSE ELSE roll_timer_active)
    /\ used_names' = {}
    /\ names' = names
    /\ name_display' = ReadyText
    /\ last_selected_name' = None
    /\ UNCHANGED avoid_repetition
    /\ ret' = None
    /\ call' = Call("reload_names", None, FALSE, 0)

add_name_to_list(name) ==
    /\ names' = NamesAfterAdd(names, name)
    /\ used_names' = used_names
    /\ UNCHANGED rollVars
    /\ ret' = Bool(AddAccepted(names, name))
    /\ call' = Call("add_name_to_list", name, FALSE, 0)

remove_name_from_list(name) ==
    /\ names' = NamesAfterRemove(names, name)
    /\ used_names' = UsedAfterRemove(names, used_names, name)
    /\ UNCHANGED rollVars
    /\ ret' = Bool(Contains(names, name))
    /\ call' = Call("remove_name_from_list", name, FALSE, 0)

clear_name_list ==
    /\ is_rolling' = FALSE
    /\ roll_timer_active' = (IF is_rolling THEN FALSE ELSE roll_timer_active)
    /\ name_display' = IF is_rolling
                       THEN DisplayAfterStop(names, used_names, last_selected_name,
                                             avoid_repetition, name_display)
                       ELSE name_display
    /\ names' = <<>>
    /\ used_names' = {}
    /\ UNCHANGED <<last_selected_name, avoid_repetition>>
    /\ ret' = PyTrue
    /\ call' = Call("clear_name_list", None, FALSE, 0)

on_avoid_repetition_changed(is_checked) ==
    /\ avoid_repetition' = is_checked
    /\ UNCHANGED <<is_rolling, roll_timer_active, last_selected_name, name_display>>
    /\ UNCHANGED managerVars
    /\ ret' = None
    /\ call' = Call("on_avoid_repetition_changed", None, is_checked, 0)

\* --------------------------------------------------------- TimerInterface
\* digits[pos + 1] holds the source's digits[pos]
Positions == 0..5

_digits_to_seconds(d) ==
    LET h == d[1] * 10 + d[2]
        m == d[3] * 10 + d[4]
        s == d[5] * 10 + d[6]
    IN  h * 3600 + m * 60 + s

\* variant: the minutes are taken from the total, not from the rest of the hour
_seconds_to_digits_minutes_of_total(seconds) ==
    LET sec == IF seconds > 0 THEN seconds ELSE 0
        h == sec \div 3600
        m == sec \div 60
        s == sec % 60
    IN  <<h \div 10, h % 10, m \div 10, m % 10, s \div 10, s % 10>>

_seconds_to_digits(seconds) ==
    LET sec == IF seconds > 0 THEN seconds ELSE 0
        h == sec \div 3600
        rest == sec % 3600
        m == rest \div 60
        s == rest % 60
    IN  <<h \div 10, h % 10, m \div 10, m % 10, s \div 10, s % 10>>

\* variant: max_digit[1] is not re-derived from the hour tens
MaxAfterEnforceStale(d, md) == md

\* _enforce_hour_constraints: the new max_digit, then the clamped digits
MaxAfterEnforce(d, md) == [md EXCEPT ![2] = IF d[1] = 2 THEN 3 ELSE 9]

\* variant: the hour ones are not clamped to the new maximum
DigitsAfterEnforceNoClamp(d, md) == d

DigitsAfterEnforce(d, md) ==
    IF d[2] > MaxAfterEnforce(d, md)[2]
    THEN [d EXCEPT ![2] = MaxAfterEnforce(d, md)[2]]
    ELSE d

DigitsAfterIncrement(d, md, pos) ==
    IF d[pos + 1] + 1 > md[pos + 1]
    THEN [d EXCEPT ![pos + 1] = 0]
    ELSE [d EXCEPT ![pos + 1] = d[pos + 1] + 1]

DigitsAfterDecrement(d, md, pos) ==
    IF d[pos + 1] - 1 < 0
    THEN [d EXCEPT ![pos + 1] = md[pos + 1]]
    ELSE [d EXCEPT ![pos + 1] = d[pos + 1] - 1]

\* the tail shared by _increment_digit and _decrement_digit
EditDigit(op, pos, d) ==
    /\ IF is_running
       THEN UNCHANGED <<digits, max_digit, edits>>
       ELSE /\ edits < MaxEdits
            /\ edits' = edits + 1
            /\ IF pos = 0
               THEN /\ max_digit' = MaxAfterEnforce(d, max_digit)
                    /\ digits' = DigitsAfterEnforce(d, max_digit)
               ELSE /\ max_digit' = max_digit
                    /\ digits' = d
    /\ UNCHANGED <<is_running, timer_active, pre_start_seconds, initial_seconds>>
    /\ UNCHANGED <<ticks, expired, starts, origin_seconds>>
    /\ ret' = None
    /\ call' = Call(op, None, is_running, pos)

\* variant: the is_running early return of _increment_digit is missing
_increment_digit_unguarded(pos) ==
    /\ edits < MaxEdits
    /\ edits' = edits + 1
    /\ max_digit' = IF pos = 0
                    THEN MaxAfterEnforce(DigitsAfterIncrement(digits, max_digit, pos), max_digit)
                    ELSE max_digit
    /\ digits' = IF pos = 0
                 THEN DigitsAfterEnforce(DigitsAfterIncrement(digits, max_digit, pos), max_digit)
                 ELSE DigitsAfterIncrement(digits, max_digit, pos)
    /\ UNCHANGED <<is_running, timer_active, pre_start_seconds, initial_seconds>>
    /\ UNCHANGED <<ticks, expired, starts, origin_seconds>>
    /\ ret' = None
    /\ call' = Call("_increment_digit", None, is_running, pos)

_increment_digit(pos) ==
    EditDigit("_increment_digit", pos, DigitsAfterIncrement(digits, max_digit, pos))

_decrement_digit(pos) ==
    EditDigit("_decrement_digit", pos, DigitsAfterDecrement(digits, max_digit, pos))

ZeroDurationWarning == "zero duration"

\* toggle() resumes a paused countdown through start(); the observed
\* origin is then the one of the start() before the pause
OriginAfterStart ==
    IF call.op = "stop" THEN origin_seconds ELSE _digits_to_seconds(digits)

\* variant: start() without the zero-duration test
start_unchecked ==
    /\ starts < MaxStarts
    /\ pre_start_seconds' = _digits_to_seconds(digits)
    /\ initial_seconds' = _digits_to_seconds(digits)
    /\ is_running' = TRUE
    /\ timer_active' = TRUE
    /\ ticks' = 0
    /\ expired' = 0
    /\ starts' = starts + 1
    /\ origin_seconds' = OriginAfterStart
    /\ ret' = None
    /\ UNCHANGED <<digits, max_digit, edits>>
    /\ call' = Call("start", None, FALSE, 0)

start ==
    /\ IF _digits_to_seconds(digits) = 0
       THEN /\ UNCHANGED <<is_running, timer_active, pre_start_seconds, initial_seconds>>
            /\ UNCHANGED <<ticks, expired, starts, origin_seconds>>
            /\ ret' = ZeroDurationWarning
       ELSE /\ starts < MaxStarts
            /\ pre_start_seconds' = _digits_to_seconds(digits)
            /\ initial_seconds' = _digits_to_seconds(digits)
            /\ is_running' = TRUE
            /\ timer_active' = TRUE
            /\ ticks' = 0
            /\ expired' = 0
            /\ starts' = starts + 1
            /\ origin_seconds' = OriginAfterStart
            /\ ret' = None
    /\ UNCHANGED <<digits, max_digit, edits>>
    /\ call' = Call("start", None, FALSE, 0)

stop ==
    /\ is_running' = FALSE
    /\ timer_active' = FALSE
    /\ UNCHANGED <<digits, max_digit, pre_start_seconds, initial_seconds>>
    /\ UNCHANGED timerObs
    /\ ret' = None
    /\ call' = Call("stop", None, FALSE, 0)

toggle ==
    \/ is_running /\ stop
    \/ ~is_running /\ start

\* variant: with no snapshot, reset() leaves the digits as they are
DigitsKeptOnReset ==
    IF pre_start_seconds # NoSeconds THEN _seconds_to_digits(pre_start_seconds)
    ELSE digits

DigitsBeforeEnforceOnReset ==
    IF pre_start_seconds # NoSeconds THEN _seconds_to_digits(pre_start_seconds)
    ELSE IF initial_seconds # NoSeconds THEN _seconds_to_digits(initial_seconds)
    ELSE <<0, 0, 0, 5, 0, 0>>

reset ==
    /\ is_running' = FALSE
    /\ timer_active' = FALSE
    /\ max_digit' = MaxAfterEnforce(DigitsBeforeEnforceOnReset, max_digit)
    /\ digits' = DigitsAfterEnforce(DigitsBeforeEnforceOnReset, max_digit)
    /\ UNCHANGED <<pre_start_seconds, initial_seconds>>
    /\ UNCHANGED timerObs
    /\ ret' = None
    /\ call' = Call("reset", None, FALSE, 0)

_restore_time(d) ==
    IF pre_start_seconds # NoSeconds THEN _seconds_to_digits(pre_start_seconds) ELSE d

\* variant: expiry without the stop()
_timeout_without_stop ==
    /\ UNCHANGED <<is_running, timer_active>>
    /\ digits' = _restore_time(digits)
    /\ expired' = expired + 1

\* expiry: stop(), restore the digits, notify
_timeout ==
    /\ is_running' = FALSE
    /\ timer_active' = FALSE
    /\ digits' = _restore_time(digits)
    /\ expired' = expired + 1

\* the 1-second QTimer callback
_tick ==
    /\ timer_active
    /\ ticks < MaxTicks
    /\ ticks' = ticks + 1
    /\ IF _digits_to_seconds(digits) - 1 < 0
       THEN _timeout
       ELSE /\ digits' = _seconds_to_digits(_digits_to_seconds(digits) - 1)
            /\ UNCHANGED <<is_running, timer_active, expired>>
    /\ UNCHANGED <<max_digit, pre_start_seconds, initial_seconds, edits, starts,
                   origin_seconds>>
    /\ ret' = None
    /\ call' = Call("_tick", None, FALSE, 0)

\* ------------------------------------------------------- specifications
InitManager == names = <<>> /\ used_names = {}

InitRoll ==
    /\ is_rolling = FALSE
    /\ roll_timer_active = FALSE
    /\ last_selected_name = None
    /\ name_display = ReadyText
    /\ avoid_repetition = TRUE

InitTimer ==
    /\ digits = <<0, 0, 0, 5, 0, 0>>
    /\ max_digit = MaxAfterEnforce(<<0, 0, 0, 5, 0, 0>>, <<2, 9, 5, 9, 5, 9>>)
    /\ is_running = FALSE
    /\ timer_active = FALSE
    /\ pre_start_seconds = NoSeconds
    /\ initial_seconds = _digits_to_seconds(<<0, 0, 0, 5, 0, 0>>)

\* ------------------------------------------------- Update.py: the file trees
\* relative paths are sequences of names
Root == <<>>
RollCallExe == <<"RollCall.exe">>
Assets == <<"assets">>
AssetsIcon == <<"assets", "icon.ico">>
AssetsFonts == <<"assets", "fonts">>
AssetsFontsFont == <<"assets", "fonts", "font.ttf">>
\* a file of the installation that no update carries
NamesFile == <<"names.txt">>

StagedDirs == {Assets, AssetsFonts}
StagedFiles == {RollCallExe, AssetsIcon, AssetsFontsFont}
StagedUniverse == StagedDirs \cup StagedFiles
InstallFiles == StagedFiles \cup {NamesFile}

Parent(p) == SubSeq(p, 1, Len(p) - 1)

\* the staged trees: every item's directory is staged too
Trees == {t \in SUBSET StagedUniverse : \A p \in t : Len(p) > 1 => Parent(p) \in t}

\* os.listdir returns the entries in an order the file system chooses
ListingOrder == <<RollCallExe, Assets, AssetsIcon, AssetsFonts, AssetsFontsFont>>
Reverse(seq) == [i \in 1..Len(seq) |-> seq[Len(seq) + 1 - i]]
listdir(tree, dir, reversed) ==
    LET order == IF reversed THEN Reverse(ListingOrder) ELSE ListingOrder
    IN  SelectSeq(order, LAMBDA p : p \in tree /\ Parent(p) = dir)

\* the installation before the update: an old copy of every file, or only
\* the executable and the user's file
InstallFull == [p \in InstallFiles |-> "old"]
InstallBare ==
    [p \in InstallFiles |-> IF p \in {RollCallExe, NamesFile} THEN "old" ELSE "absent"]
InstallNoExe == [p \in InstallFiles |-> IF p = NamesFile THEN "old" ELSE "absent"]

NoEnv == [failing |-> {}, reversed |-> FALSE, kill_ok |-> TRUE, delete_ok |-> TRUE,
          popen_ok |-> TRUE, staged0 |-> {}, install0 |-> InstallFull]

\* the updater is not running
InitUpdater ==
    /\ upd_pc = "off"
    /\ upd_env = NoEnv
    /\ update_exists = FALSE
    /\ staged = {}
    /\ install = InstallFull
    /\ events = <<>>
    /\ copy_ret = None
    /\ main_ret = None
    /\ launched = FALSE
    /\ steps = <<>>

\* ------------------------------------------- the settings page's update check
Workers == 1..MaxWorkers
InstalledVersion == "3.3.5"

\* the settings page after construction: no download, nothing shown
InitChecker ==
    /\ settings_version = InstalledVersion
    /\ notices = <<>>
    /\ download_info_bar = None
    /\ worker = [w \in Workers |-> "unborn"]
    /\ emitted = [w \in Workers |-> <<>>]
    /\ signal_queue = <<>>
    /\ ran_on = [fetch |-> {}, download |-> {}, widget |-> {}]
    /\ checks = 0
    /\ app_quit = FALSE

\* no conversion under way
NoConv == [kind |-> "none", step |-> 0, s |-> NoSeconds, d |-> <<>>,
           s2 |-> NoSeconds, d2 |-> <<>>]

InitCalls ==
    /\ call = NoCall
    /\ ret = None
    /\ ticks = 0
    /\ expired = 0
    /\ edits = 0
    /\ starts = 0
    /\ origin_seconds = NoSeconds
    /\ drawn = <<>>

InitObs == InitCalls /\ conv = NoConv /\ InitUpdater /\ InitChecker

Init == InitManager /\ InitRoll /\ InitTimer /\ InitObs

NameArgs == NameUniverse \cup {EmptyName}
MarkArgs == NameUniverse \cup {EmptyName, None}

RollIdle == UNCHANGED <<rollVars, timerVars, timerObs, drawn, conv, updVars, chkVars>>
TimerIdle == UNCHANGED <<timerVars, timerObs, drawn, conv, updVars, chkVars>>
RosterIdle == UNCHANGED <<managerVars, rollVars, drawn, conv, updVars, chkVars>>

\* calls on the NameListManager
ManagerNext ==
    \/ \E name \in NameArgs : add_name(name) /\ RollIdle
    \/ \E name \in NameArgs : remove_name(name) /\ RollIdle
    \/ clear_names /\ RollIdle
    \/ reset_used_names /\ RollIdle
    \/ \E avoid \in BOOLEAN : get_random_name(avoid) /\ RollIdle
    \/ \E name \in MarkArgs, avoid \in BOOLEAN : mark_name_as_used(name, avoid) /\ RollIdle
    \/ \E avoid \in BOOLEAN : check_and_reset_if_complete(avoid) /\ RollIdle

\* what the user and the 50 ms timer can do on the roll-call and settings pages
UINext ==
    \/ toggle_roll_call /\ TimerIdle
    \/ update_name /\ TimerIdle
    \/ reload_names /\ TimerIdle
    \/ \E name \in NameUniverse : add_name_to_list(name) /\ TimerIdle
    \/ \E name \in Elements(names) : remove_name_from_list(name) /\ TimerIdle
    \/ clear_name_list /\ TimerIdle
    \/ \E is_checked \in BOOLEAN : on_avoid_repetition_changed(is_checked) /\ TimerIdle

Next == ManagerNext \/ UINext

Spec == Init /\ [][Next]_vars

UISpec == Init /\ [][UINext]_vars

\* the 50 ms timer keeps firing while it is active
UILiveSpec == UISpec /\ WF_vars(update_name /\ TimerIdle)

\* what the user and the 1-second timer can do on the countdown page
TimerNext ==
    \/ \E pos \in Positions : _increment_digit(pos) /\ RosterIdle
    \/ \E pos \in Positions : _decrement_digit(pos) /\ RosterIdle
    \/ toggle /\ RosterIdle
    \/ reset /\ RosterIdle
    \/ _tick /\ RosterIdle

\* The countdown page as the user has left it before the first start():
\* 00:05:00 as constructed, or a time set on the digit wheels.  Every vector
\* below is reached from 00:05:00 by plus / minus clicks alone, which keep
\* max_digit[1] in step with the hour tens.
EditedDigits ==
    { <<0, 0, 0, 5, 0, 0>>, <<0, 0, 0, 0, 0, 0>>, <<0, 0, 0, 0, 0, 1>>,
      <<0, 0, 0, 0, 0, 2>>, <<1, 7, 0, 0, 0, 0>>, <<2, 0, 0, 0, 0, 1>> }

TimerInit ==
    /\ InitManager /\ InitRoll /\ InitObs
    /\ \E d \in EditedDigits :
          /\ digits = d
          /\ max_digit = MaxAfterEnforce(d, <<2, 9, 5, 9, 5, 9>>)
    /\ is_running = FALSE
    /\ timer_active = FALSE
    /\ pre_start_seconds = NoSeconds
    /\ initial_seconds = _digits_to_seconds(<<0, 0, 0, 5, 0, 0>>)

TimerSpec == TimerInit /\ [][TimerNext]_vars

\* ------------------------------------------- scenario: add / remove only
RosterArgs == RosterUniverse \cup {EmptyName}

AddRemoveNext ==
    \/ \E name \in RosterArgs : add_name(name) /\ RollIdle
    \/ \E name \in RosterArgs : remove_name(name) /\ RollIdle

AddRemoveSpec == Init /\ [][AddRemoveNext]_vars

\* ------------------------------------ scenario: draw every name, then reset
\* rosters add_name can build: 1..MaxRoster distinct non-empty names
Rosters ==
    {ns \in UNION {[1..n -> RosterUniverse] : n \in 1..MaxRoster} :
        \A i, j \in 1..Len(ns) : i # j => ns[i] # ns[j]}

DrawAllInit ==
    /\ names \in Rosters
    /\ used_names = {}
    /\ InitRoll /\ InitTimer /\ InitObs

\* x := get_random_name(True), for the |names| pairs and once more
DrawAllDraw ==
    /\ call.op \in {"init", "mark_name_as_used"}
    /\ Len(drawn) <= Len(names)
    /\ get_random_name(TRUE)
    /\ drawn' = Append(drawn, ret')
    /\ UNCHANGED <<rollVars, timerVars, timerObs, conv, updVars, chkVars>>

\* mark_name_as_used(x, True), closing each of the |names| pairs
DrawAllMark ==
    /\ call.op = "get_random_name"
    /\ Len(drawn) <= Len(names)
    /\ mark_name_as_used(ret, TRUE)
    /\ RollIdle

\* check_and_reset_if_complete(True) after the extra draw
DrawAllCheck ==
    /\ call.op = "get_random_name"
    /\ Len(drawn) = Len(names) + 1
    /\ check_and_reset_if_complete(TRUE)
    /\ RollIdle

DrawAllNext == DrawAllDraw \/ DrawAllMark \/ DrawAllCheck

DrawAllSpec == DrawAllInit /\ [][DrawAllNext]_vars

\* ------------------------------ the two conversions applied to given inputs
\* seconds handed to _seconds_to_digits: every second of some minutes of
\* every hour up to MaxHours, and a negative value
SecondsInputs ==
    {h * 3600 + m * 60 + sec : h \in 0..MaxHours, m \in {0, 1, 59}, sec \in 0..59}
        \cup {0 - 1}

\* digit vectors handed to _digits_to_seconds: every pair of hour digits
DigitsInputs ==
    {<<a, b, c, e, f, g>> : a \in 0..9, b \in 0..9, c \in {0, 5}, e \in {0, 9},
                            f \in {0, 5}, g \in 0..9}

ConvInit ==
    /\ InitManager /\ InitRoll /\ InitTimer /\ InitCalls /\ InitUpdater /\ InitChecker
    /\ \/ \E sec \in SecondsInputs :
            conv = [NoConv EXCEPT !.kind = "seconds", !.s = sec]
       \/ \E d \in DigitsInputs :
            conv = [NoConv EXCEPT !.kind = "digits", !.d = d]

ConvIdle ==
    UNCHANGED <<managerVars, rollVars, timerVars, timerObs, drawn, call, ret, updVars,
                chkVars>>

\* d := _seconds_to_digits(s)
ApplySecondsToDigits ==
    /\ \/ /\ conv.kind = "seconds" /\ conv.step = 0
          /\ conv' = [conv EXCEPT !.d = _seconds_to_digits(conv.s), !.step = 1]
       \/ /\ conv.kind = "digits" /\ conv.step = 1
          /\ conv' = [conv EXCEPT !.d2 = _seconds_to_digits(conv.s), !.step = 2]
    /\ ConvIdle

\* s := _digits_to_seconds(d)
ApplyDigitsToSeconds ==
    /\ \/ /\ conv.kind = "digits" /\ conv.step = 0
          /\ conv' = [conv EXCEPT !.s = _digits_to_seconds(conv.d), !.step = 1]
       \/ /\ conv.kind = "seconds" /\ conv.step = 1
          /\ conv' = [conv EXCEPT !.s2 = _digits_to_seconds(conv.d), !.step = 2]
    /\ ConvIdle

ConvNext == ApplySecondsToDigits \/ ApplyDigitsToSeconds

ConvSpec == ConvInit /\ [][ConvNext]_vars

\* ---------------------------------------------------- Update.py: the updater
Event(p, outcome) == [path |-> p, outcome |-> outcome]

\* copy_item: a raising copy counts an error and returns False; a directory
\* copies its entries and drops what they return; a file replaces the target
RECURSIVE copy_item(_, _, _, _)
RECURSIVE CopyEntries(_, _, _, _)
copy_item(tree, env, p, st) ==
    IF p \in env.failing
    THEN [st |-> [st EXCEPT !.error_count = @ + 1,
                            !.events = Append(@, Event(p, "failed"))],
          ok |-> FALSE]
    ELSE IF p \in StagedDirs
    THEN [st |-> CopyEntries(tree, env, listdir(tree, p, env.reversed), st),
          ok |-> TRUE]
    ELSE [st |-> [st EXCEPT !.install = [@ EXCEPT ![p] = "new"],
                            !.copied_count = @ + 1,
                            !.events = Append(@, Event(p, "copied"))],
          ok |-> TRUE]

CopyEntries(tree, env, items, st) ==
    IF items = <<>> THEN st
    ELSE CopyEntries(tree, env, Tail(items), copy_item(tree, env, Head(items), st).st)

\* the loop over the entries of source_dir stops at the first entry whose
\* copy_item returns False
RECURSIVE CopyTopLevel(_, _, _, _)
CopyTopLevel(tree, env, items, st) ==
    IF items = <<>>
    THEN [st |-> st, ret |-> (st.copied_count > 0 \/ st.error_count = 0)]
    ELSE LET r == copy_item(tree, env, Head(items), st)
         IN  IF ~r.ok THEN [st |-> r.st, ret |-> FALSE]
             ELSE CopyTopLevel(tree, env, Tail(items), r.st)

\* copy_and_replace_files(source_dir, target_dir) as a function
CopyResult(tree, env, inst) ==
    LET st0 == [install |-> inst, events |-> <<>>, copied_count |-> 0,
                error_count |-> 0]
    IN  IF Root \in env.failing
        THEN [st |-> [st0 EXCEPT !.events = <<Event(Root, "failed")>>], ret |-> FALSE]
        ELSE CopyTopLevel(tree, env, listdir(tree, Root, env.reversed), st0)

UpdateIdle ==
    UNCHANGED <<managerVars, rollVars, timerVars, timerObs, drawn, call, ret, conv,
                upd_env, chkVars>>

\* main step 1: the result of kill_process_by_name is ignored
kill_process_by_name ==
    /\ upd_pc = "kill"
    /\ upd_pc' = "move"
    /\ steps' = Append(steps, IF upd_env.kill_ok THEN "kill" ELSE "kill failed")
    /\ UNCHANGED <<update_exists, staged, install, events, copy_ret, main_ret,
                   launched>>
    /\ UpdateIdle

\* main step 2 when update_dir does not exist
no_update_dir ==
    /\ upd_pc = "move" /\ ~update_exists
    /\ upd_pc' = "launch"
    /\ UNCHANGED <<update_exists, staged, install, events, copy_ret, main_ret,
                   launched, steps>>
    /\ UpdateIdle

\* variant: main goes on to the deletion whatever the copy returned
copy_and_replace_files_unchecked ==
    /\ upd_pc = "move" /\ update_exists
    /\ LET r == CopyResult(staged, upd_env, install)
       IN  /\ install' = r.st.install
           /\ events' = r.st.events
           /\ copy_ret' = Bool(r.ret)
    /\ upd_pc' = "delete"
    /\ steps' = Append(steps, "copy")
    /\ UNCHANGED <<update_exists, staged, main_ret, launched>>
    /\ UpdateIdle

\* move_and_replace_files, first half: the copy; False ends main
copy_and_replace_files ==
    /\ upd_pc = "move" /\ update_exists
    /\ LET r == CopyResult(staged, upd_env, install)
       IN  /\ install' = r.st.install
           /\ events' = r.st.events
           /\ copy_ret' = Bool(r.ret)
           /\ upd_pc' = IF r.ret THEN "delete" ELSE "done"
           /\ main_ret' = IF r.ret THEN main_ret ELSE PyFalse
    /\ steps' = Append(steps, "copy")
    /\ UNCHANGED <<update_exists, staged, launched>>
    /\ UpdateIdle

\* move_and_replace_files, second half: the staged entries are deleted; an
\* exception is swallowed
delete_staged ==
    /\ upd_pc = "delete"
    /\ staged' = IF upd_env.delete_ok THEN {} ELSE staged
    /\ upd_pc' = "cleanup"
    /\ steps' = Append(steps, "delete")
    /\ UNCHANGED <<update_exists, install, events, copy_ret, main_ret, launched>>
    /\ UpdateIdle

\* an empty update_dir is removed
cleanup_empty_directories ==
    /\ upd_pc = "cleanup"
    /\ update_exists' = (staged # {})
    /\ upd_pc' = "launch"
    /\ UNCHANGED <<staged, install, events, copy_ret, main_ret, launched, steps>>
    /\ UpdateIdle

\* main step 3: False when RollCall.exe is missing or Popen raises
start_program_background ==
    /\ upd_pc = "launch"
    /\ launched' = (install[RollCallExe] # "absent" /\ upd_env.popen_ok)
    /\ main_ret' = Bool(launched')
    /\ upd_pc' = "done"
    /\ steps' = Append(steps, "launch")
    /\ UNCHANGED <<update_exists, staged, install, events, copy_ret>>
    /\ UpdateIdle

UpdateInit ==
    /\ InitManager /\ InitRoll /\ InitTimer /\ InitCalls /\ conv = NoConv /\ InitChecker
    /\ upd_pc = "kill"
    /\ update_exists \in BOOLEAN
    /\ staged \in (IF update_exists THEN Trees ELSE {{}})
    /\ install \in {InstallFull, InstallBare, InstallNoExe}
    /\ \E f \in SUBSET (IF update_exists THEN staged \cup {Root} ELSE {}),
          rev \in BOOLEAN, k \in BOOLEAN, del \in BOOLEAN, po \in BOOLEAN :
            upd_env = [failing |-> f, reversed |-> rev, kill_ok |-> k,
                       delete_ok |-> del, popen_ok |-> po, staged0 |-> staged,
                       install0 |-> install]
    /\ events = <<>>
    /\ copy_ret = None
    /\ main_ret = None
    /\ launched = FALSE
    /\ steps = <<>>

UpdateNext ==
    \/ kill_process_by_name
    \/ no_update_dir
    \/ copy_and_replace_files
    \/ delete_staged
    \/ cleanup_empty_directories
    \/ start_program_background

UpdateSpec == UpdateInit /\ [][UpdateNext]_vars

\* ------------------- scenario: roll-call sessions on a fixed roster, avoid on
RollInit ==
    /\ names \in Rosters
    /\ used_names = {}
    /\ InitRoll /\ InitTimer /\ InitObs

RollNext ==
    \/ toggle_roll_call /\ TimerIdle
    \/ update_name /\ TimerIdle

RollSpec == RollInit /\ [][RollNext]_vars

\* ---------------------------------------------- NameListManager.load_from_file
\* JSON arrays the file can hold: short lists of names, repeats included
ListValues == UNION {[1..n -> {"A", "B"}] : n \in 0..2}

\* the value under a key: missing, an array, a string (a Python str is a
\* sequence of characters), or a number
Field(shape, value) == [shape |-> shape, value |-> value]
NamesFields ==
    {Field("missing", <<>>), Field("string", <<"A", "B">>)}
        \cup {Field("list", v) : v \in ListValues}
UsedFields ==
    {Field("missing", <<>>), Field("string", <<"A", "B">>), Field("number", <<>>)}
        \cup {Field("list", v) : v \in ListValues}

File(kind, n, u) == [kind |-> kind, names |-> n, used |-> u]
Files ==
    {File(k, Field("missing", <<>>), Field("missing", <<>>)) :
        k \in {"absent", "unparsable", "not a dict"}}
        \cup {File("dict", n, u) : n \in NamesFields, u \in UsedFields}

\* data.get('names', []) and set(data.get('used_names', [])); set() of a
\* number raises TypeError
FileNames(file) == file.names.value
SetRaises(file) == file.used.shape = "number"
FileUsed(file) == Elements(file.used.value)

\* json.load or data.get raised, or the file does not exist: nothing assigned
LoadReadsNothing(file) == file.kind # "dict"

\* self.names is assigned before set(...) is evaluated
load_from_file(file) ==
    /\ names' = IF LoadReadsNothing(file) THEN names ELSE FileNames(file)
    /\ used_names' = IF LoadReadsNothing(file) \/ SetRaises(file) THEN used_names
                     ELSE FileUsed(file)
    /\ ret' = Bool(~LoadReadsNothing(file) /\ ~SetRaises(file))
    /\ call' = Call("load_from_file", file, FALSE, 0)

LoadInit ==
    /\ names \in Rosters \cup {<<>>}
    /\ used_names \in SUBSET Elements(names)
    /\ InitRoll /\ InitTimer /\ InitObs

LoadNext == \E file \in Files : load_from_file(file) /\ RollIdle

LoadSpec == LoadInit /\ [][LoadNext]_vars

\* ------------------------------------- update check and download (RollCall.py)
\* what urlopen / the descriptor can give
FetchFailures == {"timeout", "connection error", "http error", "short descriptor"}
FetchOutcomes == FetchFailures \cup {"newer", "current"}

ErrorNotice == "error: cannot reach the update server"
UpToDateNotice == "success: already the latest version"
AskNotice == "ask: update now?"
DownloadErrorNotice == "error: cannot download the update"
NoUpdaterNotice == "error: update downloaded, updater not found"
LaunchErrorNotice == "error: cannot start the updater"

Signal(sig, w, complete) == [sig |-> sig, from |-> w, complete |-> complete]
Ran(kind, thread) == [ran_on EXCEPT ![kind] = @ \cup {thread}]

\* variant: a failed check is reported whether silent or not
NoticesAfterCheckLoud(silent, outcome) ==
    IF outcome \in FetchFailures THEN Append(notices, ErrorNotice)
    ELSE IF outcome = "newer" THEN Append(notices, AskNotice)
    ELSE IF silent THEN notices ELSE Append(notices, UpToDateNotice)

\* what _check_updates shows: the error bar unless silent, the question
\* for a newer version (silent or not), the success bar unless silent
NoticesAfterCheck(silent, outcome) ==
    IF outcome \in FetchFailures
    THEN IF silent THEN notices ELSE Append(notices, ErrorNotice)
    ELSE IF outcome = "newer" THEN Append(notices, AskNotice)
    ELSE IF silent THEN notices ELSE Append(notices, UpToDateNotice)

UnbornWorkers == {w \in Workers : worker[w] = "unborn"}
NextWorker == CHOOSE w \in UnbornWorkers : \A v \in UnbornWorkers : w <= v

CheckIdle ==
    UNCHANGED <<managerVars, rollVars, timerVars, timerObs, drawn, conv, updVars>>

\* _check_updates runs on the thread of its caller, urlopen included; a
\* newer version and the answer yes call start_download_update, which
\* shows the info bar and starts a daemon thread
_check_updates(silent, outcome, answer) ==
    /\ ~app_quit /\ checks < MaxChecks
    /\ (outcome = "newer" /\ answer) => UnbornWorkers # {}
    /\ checks' = checks + 1
    /\ notices' = NoticesAfterCheck(silent, outcome)
    /\ IF outcome = "newer" /\ answer
       THEN /\ download_info_bar' = "downloading"
            /\ worker' = [worker EXCEPT ![NextWorker] = "running"]
            /\ ran_on' = [ran_on EXCEPT !.fetch = @ \cup {"main"},
                                        !.widget = @ \cup {"main"}]
       ELSE /\ ran_on' = Ran("fetch", "main")
            /\ UNCHANGED <<download_info_bar, worker>>
    /\ call' = Call("_check_updates", outcome, silent, 0)
    /\ ret' = None
    /\ UNCHANGED <<settings_version, emitted, signal_queue, app_quit>>
    /\ CheckIdle

\* slot of the check-updates button's clicked signal
on_check_updates_clicked ==
    \E outcome \in FetchOutcomes, answer \in BOOLEAN :
        _check_updates(FALSE, outcome, answer)

\* QTimer.singleShot callback after start-up
silent_check_updates_on_startup ==
    /\ checks = 0
    /\ \E outcome \in FetchOutcomes, answer \in BOOLEAN :
            _check_updates(TRUE, outcome, answer)

Emit(w, sig) ==
    /\ emitted' = [emitted EXCEPT ![w] = Append(@, sig.sig)]
    /\ signal_queue' = Append(signal_queue, sig)

ProgressCount(w) ==
    Cardinality({i \in 1..Len(emitted[w]) : emitted[w][i] = "progress_updated"})

\* download_update_thread: urlretrieve's reporthook emits progress_updated
download_update_thread_progress(w) ==
    /\ worker[w] = "running" /\ ProgressCount(w) < MaxProgress
    /\ \E complete \in BOOLEAN : Emit(w, Signal("progress_updated", w, complete))
    /\ ran_on' = Ran("download", "worker")
    /\ call' = Call("download_update_thread", None, FALSE, w)
    /\ UNCHANGED <<settings_version, notices, download_info_bar, worker, checks,
                   app_quit, ret>>
    /\ CheckIdle

\* download_update_thread: download and extraction done
download_update_thread_finished(w) ==
    /\ worker[w] = "running"
    /\ worker' = [worker EXCEPT ![w] = "finished"]
    /\ Emit(w, Signal("download_finished", w, TRUE))
    /\ ran_on' = Ran("download", "worker")
    /\ call' = Call("download_update_thread", None, FALSE, w)
    /\ UNCHANGED <<settings_version, notices, download_info_bar, checks, app_quit,
                   ret>>
    /\ CheckIdle

\* download_update_thread: any exception
download_update_thread_error(w) ==
    /\ worker[w] = "running"
    /\ worker' = [worker EXCEPT ![w] = "failed"]
    /\ Emit(w, Signal("error_occurred", w, FALSE))
    /\ ran_on' = Ran("download", "worker")
    /\ call' = Call("download_update_thread", None, FALSE, w)
    /\ UNCHANGED <<settings_version, notices, download_info_bar, checks, app_quit,
                   ret>>
    /\ CheckIdle

\* the GUI thread takes the next queued signal
Delivered(sig) ==
    /\ ~app_quit
    /\ signal_queue # <<>> /\ Head(signal_queue).sig = sig
    /\ signal_queue' = Tail(signal_queue)
    /\ ran_on' = Ran("widget", "main")
    /\ call' = Call(sig, None, FALSE, Head(signal_queue).from)
    /\ UNCHANGED <<settings_version, worker, emitted, checks, ret>>
    /\ CheckIdle

on_download_progress ==
    /\ Delivered("progress_updated")
    /\ download_info_bar' =
            IF download_info_bar = None THEN None
            ELSE IF Head(signal_queue).complete THEN "extracting" ELSE "progress"
    /\ UNCHANGED <<notices, app_quit>>

\* closes the info bar; starts Update.exe and asks the application to quit
on_download_finished ==
    /\ Delivered("download_finished")
    /\ download_info_bar' = None
    /\ \E exe_exists \in BOOLEAN, popen_ok \in BOOLEAN :
            /\ app_quit' = (exe_exists /\ popen_ok)
            /\ notices' = IF ~exe_exists THEN Append(notices, NoUpdaterNotice)
                          ELSE IF ~popen_ok THEN Append(notices, LaunchErrorNotice)
                          ELSE notices

on_download_error ==
    /\ Delivered("error_occurred")
    /\ download_info_bar' = None
    /\ notices' = Append(notices, DownloadErrorNotice)
    /\ UNCHANGED app_quit

CheckNext ==
    \/ on_check_updates_clicked
    \/ silent_check_updates_on_startup
    \/ \E w \in Workers : download_update_thread_progress(w)
    \/ \E w \in Workers : download_update_thread_finished(w)
    \/ \E w \in Workers : download_update_thread_error(w)
    \/ on_download_progress
    \/ on_download_finished
    \/ on_download_error

CheckSpec == Init /\ [][CheckNext]_vars

\* ---------------------------------------------------------------- claims
NoDuplicates(ns) == \A i, j \in 1..Len(ns) : i # j => ns[i] # ns[j]

\* C1: in every state reachable through the roster operations and the
\* roll-call pages, every element of used_names is an element of names.
C1_UsedSubsetOfNames == used_names \subseteq Elements(names)

\* C2: from an empty roster, after every add_name / remove_name call,
\* used_names is a subset of names.
C2_AddRemoveKeepsUsedInNames == \A name \in used_names : Contains(names, name)

C2_Witness == call.op = "remove_name" /\ ret = PyTrue /\ Len(names) >= 1

\* C3: get_random_name(True) returns None exactly when no name of names is
\* outside used_names, and otherwise a name of names that is not in
\* used_names; get_random_name(False) returns None exactly when names is
\* empty, and otherwise an element of names.
C3_DrawResult ==
    [][call'.op = "get_random_name" =>
        IF call'.flag
        THEN /\ (ret' = None) <=> (\A n \in Elements(names) : n \in used_names)
             /\ ret' # None => (ret' \in Elements(names) /\ ret' \notin used_names)
        ELSE /\ (ret' = None) <=> (names = <<>>)
             /\ ret' # None => ret' \in Elements(names)]_vars

C3_Witness ==
    /\ call.op = "get_random_name" /\ call.flag
    /\ ret = None /\ names # <<>>

\* C4: with n >= 1 distinct names and nothing used, n pairs of
\* get_random_name(True) / mark_name_as_used return every name exactly once;
\* then nothing is available, one more draw returns None, and
\* check_and_reset_if_complete(True) returns True, empties used_names and
\* keeps names.
C4_DrawAllState ==
    LET n == Len(names)
        k == IF Len(drawn) < n THEN Len(drawn) ELSE n
    IN  /\ \A i \in 1..k : Contains(names, drawn[i])
        /\ \A i, j \in 1..k : i # j => drawn[i] # drawn[j]
        /\ (Len(drawn) = n /\ call.op = "mark_name_as_used") => get_available_names = <<>>
        /\ Len(drawn) = n + 1 => drawn[n + 1] = None
        /\ call.op = "check_and_reset_if_complete" => (ret = PyTrue /\ used_names = {})

C4_DrawAll == []C4_DrawAllState /\ [][names' = names]_vars

C4_Witness ==
    /\ call.op = "check_and_reset_if_complete" /\ ret = PyTrue
    /\ Len(names) >= 2 /\ Len(drawn) = Len(names) + 1

\* C5: add_name returns False and changes nothing for an empty or present
\* name, otherwise returns True and appends the name at the end; names never
\* holds the same string twice.
C5_AddName ==
    /\ []NoDuplicates(names)
    /\ [][call'.op = "add_name" =>
            IF call'.name = EmptyName \/ call'.name \in Elements(names)
            THEN ret' = PyFalse /\ names' = names /\ used_names' = used_names
            ELSE ret' = PyTrue /\ names' = names \o <<call'.name>>
                 /\ used_names' = used_names]_vars

C5_Witness ==
    /\ call.op = "add_name" /\ ret = PyTrue
    /\ Len(names) >= 2 /\ names[Len(names)] = call.name

\* C6: check_and_reset_if_complete(avoid) returns True and empties
\* used_names exactly when avoid holds and len(used_names) >= len(names) > 0;
\* otherwise it returns False and changes nothing.
C6_CheckAndReset ==
    [][call'.op = "check_and_reset_if_complete" =>
        IF call'.flag /\ Cardinality(used_names) >= Len(names) /\ Len(names) > 0
        THEN ret' = PyTrue /\ used_names' = {} /\ names' = names
        ELSE ret' = PyFalse /\ used_names' = used_names /\ names' = names]_vars

C6_Witness ==
    /\ call.op = "check_and_reset_if_complete" /\ ret = PyTrue
    /\ names # <<>> /\ used_names = {}

\* C7: a draw changes neither names nor used_names; used_names grows only
\* in mark_name_as_used (by the name, when avoid holds and the name is
\* non-empty) and so, on the roll-call page, only in stop_roll_call, which
\* commits the last displayed name; update_name ticks leave it alone.
C7_DrawDoesNotMark ==
    [][/\ call'.op \in {"get_random_name", "update_name"} => UNCHANGED managerVars
       /\ call'.op = "mark_name_as_used" =>
            /\ names' = names
            /\ used_names' = IF call'.flag /\ call'.name \notin {EmptyName, None}
                              THEN used_names \cup {call'.name}
                              ELSE used_names
       /\ call'.op = "stop_roll_call" =>
            used_names' \subseteq used_names \cup {last_selected_name}
       /\ ~(used_names' \subseteq used_names) =>
            call'.op \in {"mark_name_as_used", "stop_roll_call"}]_vars

C7_Witness ==
    /\ call.op = "update_name" /\ avoid_repetition
    /\ Truthy(last_selected_name) /\ last_selected_name \notin used_names

\* C8: while the countdown is running, _increment_digit(pos) and
\* _decrement_digit(pos) leave digits, max_digit, _pre_start_seconds and
\* is_running unchanged, for every pos.
C8_NoEditWhileRunning ==
    [][(call'.op \in {"_increment_digit", "_decrement_digit"} /\ is_running) =>
        UNCHANGED <<digits, max_digit, pre_start_seconds, is_running>>]_vars

C8_Witness ==
    /\ call.op = "_increment_digit" /\ call.flag /\ call.pos = 5
    /\ is_running

\* C9: start() with digits that decode to 0 seconds reports the
\* zero-duration condition and changes nothing: not running, no timer,
\* digits and _pre_start_seconds as before.
C9_ZeroStart ==
    [][(call'.op = "start" /\ _digits_to_seconds(digits) = 0) =>
        /\ ret' = ZeroDurationWarning
        /\ ~is_running' /\ ~timer_active'
        /\ UNCHANGED <<is_running, timer_active, digits, pre_start_seconds>>]_vars

C9_Witness ==
    /\ call.op = "start" /\ ret = ZeroDurationWarning
    /\ digits = <<0, 0, 0, 0, 0, 0>> /\ ~is_running

\* C10: after a successful start() at T >= 1 seconds with no pause, reset
\* or edit, the T-th tick reaches expiry: the timer is stopped, is_running
\* is False, the expired notice has been emitted and digits are those of
\* the start.
C10_ExpiryAtTickT ==
    (call.op = "_tick" /\ pre_start_seconds # NoSeconds /\ ticks = pre_start_seconds) =>
        /\ ~timer_active /\ ~is_running
        /\ expired = 1
        /\ digits = _seconds_to_digits(pre_start_seconds)

\* C11: a _tick while running computes new = total - 1; for new >= 0 the
\* digits then decode to new and the countdown keeps running; for new < 0
\* the expiry runs once: timer stopped, is_running False, digits restored
\* from _pre_start_seconds, expired notice emitted; no tick is processed
\* after expiry until a new start().
C11_AfterExpiry ==
    /\ expired <= 1
    /\ expired = 1 => (~timer_active /\ ~is_running)
    /\ timer_active <=> is_running

C11_TickStep ==
    [][call'.op = "_tick" =>
        /\ is_running
        /\ IF _digits_to_seconds(digits) - 1 >= 0
           THEN /\ _digits_to_seconds(digits') = _digits_to_seconds(digits) - 1
                /\ is_running' /\ timer_active'
                /\ expired' = expired
           ELSE /\ ~is_running' /\ ~timer_active'
                /\ digits' = _seconds_to_digits(pre_start_seconds)
                /\ expired' = expired + 1]_vars

C11_Tick == []C11_AfterExpiry /\ C11_TickStep

C11_Witness ==
    /\ call.op = "_tick" /\ expired = 1 /\ ~is_running
    /\ pre_start_seconds = 2 /\ digits = <<0, 0, 0, 0, 0, 2>>

\* C12: after start() at T0, ticks, pause, resume and more ticks, reset()
\* and expiry both restore the digits to T0, not to the time at the resume.
C12_RestoreToOriginalStart ==
    (origin_seconds # NoSeconds /\ (call.op = "reset" \/ (call.op = "_tick" /\ expired = 1))) =>
        digits = _seconds_to_digits(origin_seconds)

\* C13 as stated: reset() stops the countdown; with a snapshot the digits
\* decode to it; with no successful start() so far the digits stay as they
\* were, edits included.
C13_ResetKeepsEdits ==
    [][call'.op = "reset" =>
        /\ ~is_running' /\ ~timer_active'
        /\ pre_start_seconds # NoSeconds =>
              _digits_to_seconds(digits') = pre_start_seconds
        /\ pre_start_seconds = NoSeconds => digits' = digits]_vars

\* C13 as amended: reset() stops the countdown; with a snapshot the digits
\* decode to it; with no successful start() so far the digits go back to
\* the constructed 00:05:00 and the edits are lost.
C13_Reset ==
    [][call'.op = "reset" =>
        /\ ~is_running' /\ ~timer_active'
        /\ pre_start_seconds # NoSeconds =>
              _digits_to_seconds(digits') = pre_start_seconds
        /\ pre_start_seconds = NoSeconds => digits' = <<0, 0, 0, 5, 0, 0>>]_vars

C13_Witness ==
    /\ call.op = "reset" /\ pre_start_seconds = NoSeconds
    /\ edits >= 1 /\ digits = <<0, 0, 0, 5, 0, 0>>

\* C14: in every reachable state max_digit[1] is 3 when digits[0] = 2 and 9
\* otherwise, the other maxima are 2, 5, 9, 5, 9, and no digit exceeds its
\* maximum.
C14_MaxDigitInStep ==
    /\ max_digit[2] = (IF digits[1] = 2 THEN 3 ELSE 9)
    /\ max_digit[1] = 2 /\ max_digit[3] = 5 /\ max_digit[4] = 9
    /\ max_digit[5] = 5 /\ max_digit[6] = 9
    /\ \A i \in 1..6 : digits[i] <= max_digit[i]

\* C15: digits is always six integers >= 0, with hour ones <= 3 when the
\* hour tens are 2, minute tens and second tens <= 5 and every digit <= 9,
\* so the total lies in 0 .. 99:59:59.
C15_DigitsValid ==
    /\ Len(digits) = 6
    /\ \A i \in 1..6 : digits[i] \in 0..9
    /\ digits[1] = 2 => digits[2] <= 3
    /\ digits[3] <= 5 /\ digits[5] <= 5
    /\ _digits_to_seconds(digits) \in 0..(99 * 3600 + 59 * 60 + 59)

C15_Witness == call.op = "_tick" /\ digits = <<1, 9, 5, 9, 5, 9>>

\* C16: when not running, an edit of the hour tens re-derives max_digit[1]
\* from the new hour tens and lowers the hour ones to it in the same step:
\* to 2 with hour ones 7 gives hour ones 3 and max_digit[1] = 3; away from
\* 2 gives max_digit[1] = 9 and keeps the hour ones.
C16_HourTensEdit ==
    [][(call'.op \in {"_increment_digit", "_decrement_digit"} /\ call'.pos = 0
        /\ ~is_running) =>
        /\ max_digit'[2] = (IF digits'[1] = 2 THEN 3 ELSE 9)
        /\ digits'[2] = (IF digits'[1] = 2 /\ digits[2] > 3 THEN 3 ELSE digits[2])]_vars

C16_Witness ==
    /\ call.op = "_increment_digit" /\ call.pos = 0 /\ ~call.flag
    /\ edits = 1 /\ starts = 0
    /\ digits = <<2, 3, 0, 0, 0, 0>> /\ max_digit[2] = 3

\* C17: when not running, in every reachable state, _increment_digit(pos)
\* sets digits[pos] to (digits[pos] + 1) mod (max_digit[pos] + 1) and
\* _decrement_digit(pos) to (digits[pos] - 1) mod (max_digit[pos] + 1); no
\* other position changes, except the hour ones when pos = 0.
C17_CyclesModuloMax ==
    [][(call'.op \in {"_increment_digit", "_decrement_digit"} /\ ~is_running) =>
        LET i == call'.pos + 1
            m == max_digit[i] + 1
        IN  /\ digits'[i] = IF call'.op = "_increment_digit"
                            THEN (digits[i] + 1) % m
                            ELSE (digits[i] + m - 1) % m
            /\ \A j \in 1..6 : (j # i /\ ~(j = 2 /\ i = 1)) => digits'[j] = digits[j]]_vars

\* C18: _digits_to_seconds(_seconds_to_digits(s)) = s for every s in
\* 0 .. 99:59:59 whose hours are not 24..29 (the hour-ones clamp), and
\* _seconds_to_digits(_digits_to_seconds(d)) = d for every valid digit
\* vector d.
MaxTotal == 99 * 3600 + 59 * 60 + 59

HoursNeedClamp(sec) == (sec \div 3600) \in 24..29

ValidDigits(d) ==
    /\ \A i \in 1..6 : d[i] \in 0..9
    /\ d[1] = 2 => d[2] <= 3
    /\ d[3] <= 5 /\ d[5] <= 5

C18_RoundTrip ==
    /\ (conv.kind = "seconds" /\ conv.step = 2 /\ conv.s \in 0..MaxTotal
            /\ ~HoursNeedClamp(conv.s)) => conv.s2 = conv.s
    /\ (conv.kind = "digits" /\ conv.step = 2 /\ ValidDigits(conv.d)) =>
            conv.d2 = conv.d

C18_Witness ==
    /\ conv.kind = "seconds" /\ conv.step = 2
    /\ conv.s = MaxTotal /\ conv.d = <<9, 9, 5, 9, 5, 9>> /\ conv.s2 = MaxTotal

\* C19: _digits_to_seconds reads the hour ones as 3 when the hour tens are
\* 2 and the hour ones exceed 3 ([2,7,0,0,0,0] is 23 h); _seconds_to_digits
\* caps the hours at 99 for every non-negative input, never returns hour
\* tens 2 with hour ones > 3, and returns only digits in 0..9.
C19_ConversionsClamp ==
    /\ (conv.kind = "digits" /\ conv.step >= 1 /\ conv.d[1] = 2 /\ conv.d[2] > 3) =>
            conv.s = 23 * 3600 + (conv.d[3] * 10 + conv.d[4]) * 60
                     + conv.d[5] * 10 + conv.d[6]
    /\ (conv.kind = "seconds" /\ conv.step >= 1 /\ conv.s >= 0) =>
            /\ conv.d[1] * 10 + conv.d[2] <= 99
            /\ ~(conv.d[1] = 2 /\ conv.d[2] > 3)
            /\ \A i \in 1..6 : conv.d[i] \in 0..9

\* C20: if copying any staged item fails, at any depth, nothing is copied
\* after it and copy_and_replace_files returns False; the staged tree is
\* then not deleted and main() returns False without launching RollCall.exe.
SomeCopyFailed == \E i \in 1..Len(events) : events[i].outcome = "failed"

InSteps(step) == \E i \in 1..Len(steps) : steps[i] = step

C20_FailFast ==
    SomeCopyFailed =>
        /\ events[Len(events)].outcome = "failed"
        /\ copy_ret = PyFalse
        /\ ~InSteps("delete")
        /\ staged = upd_env.staged0
        /\ ~InSteps("launch") /\ ~launched
        /\ main_ret = PyFalse

\* C21: when copy_and_replace_files returns False the installed files and
\* their contents are what they were before the apply step; the
\* installation differs from its start only after a copy that succeeded.
C21_FailedApplyLeavesInstall ==
    /\ copy_ret = PyFalse => install = upd_env.install0
    /\ install # upd_env.install0 => (copy_ret = PyTrue /\ ~SomeCopyFailed)

\* C22: after copy_and_replace_files returned True, every installed file
\* with no staged counterpart is present and unchanged, every staged file
\* (at every depth) is installed with the staged content, and no installed
\* file has been deleted.
C22_CopyNotMergeDelete ==
    copy_ret = PyTrue =>
        /\ \A p \in InstallFiles \ upd_env.staged0 : install[p] = upd_env.install0[p]
        /\ \A p \in StagedFiles \cap upd_env.staged0 : install[p] = "new"
        /\ \A p \in InstallFiles : upd_env.install0[p] # "absent" => install[p] # "absent"

\* C23: main() performs kill, copy, delete, launch in that order and no
\* other; the delete happens only after the copy returned True, the launch
\* only after copy and delete, or with the copy skipped because update_dir
\* does not exist; a failing kill does not stop the later steps.
StepRank(step) ==
    CASE step \in {"kill", "kill failed"} -> 1
      [] step = "copy" -> 2
      [] step = "delete" -> 3
      [] step = "launch" -> 4

C23_StepOrder ==
    /\ \A i \in 1..Len(steps) : \A j \in 1..Len(steps) :
            i < j => StepRank(steps[i]) < StepRank(steps[j])
    /\ steps # <<>> => StepRank(steps[1]) = 1
    /\ InSteps("delete") => (InSteps("copy") /\ copy_ret = PyTrue)
    /\ InSteps("launch") =>
            \/ InSteps("copy") /\ copy_ret = PyTrue /\ InSteps("delete")
            \/ ~InSteps("copy") /\ ~InSteps("delete") /\ ~update_exists
    /\ (upd_pc = "done" /\ copy_ret # PyFalse) => InSteps("launch")
    /\ launched => steps[Len(steps)] = "launch"

C23_Witness ==
    /\ upd_pc = "done" /\ launched /\ main_ret = PyTrue
    /\ steps = <<"kill failed", "copy", "delete", "launch">>
    /\ staged = {} /\ upd_env.staged0 # {}

\* C24: the version-descriptor fetch and the archive download run on a
\* worker thread, never on the GUI main thread, and widget state is
\* written by the main thread only (the worker only emits signals).
C24_OffMainThread ==
    /\ ran_on.fetch \subseteq {"worker"}
    /\ ran_on.download \subseteq {"worker"}
    /\ ran_on.widget \subseteq {"main"}

\* C25: a failed _check_updates shows nothing and starts no download when
\* silent, shows exactly one error notice when manual; it returns normally
\* and leaves settings.version as it was.
C25_FailedCheck ==
    [][(call'.op = "_check_updates" /\ call'.name \in FetchFailures) =>
        /\ notices' = (IF call'.flag THEN notices ELSE Append(notices, ErrorNotice))
        /\ worker' = worker /\ download_info_bar' = download_info_bar
        /\ ret' = None
        /\ settings_version' = settings_version]_vars

C25_Witness ==
    /\ call.op = "_check_updates" /\ call.name = "short descriptor" /\ ~call.flag
    /\ checks = 2
    /\ notices = <<ErrorNotice>>

\* C30: at most one download thread is running at any time, and each
\* download that ended emitted exactly one of download_finished and
\* error_occurred.
TerminalCount(w) ==
    Cardinality({i \in 1..Len(emitted[w]) :
                    emitted[w][i] \in {"download_finished", "error_occurred"}})

C30_OneDownload ==
    /\ Cardinality({w \in Workers : worker[w] = "running"}) <= 1
    /\ \A w \in Workers :
            TerminalCount(w) = (IF worker[w] \in {"finished", "failed"} THEN 1 ELSE 0)

\* C26: in avoid-repetition mode, whenever the check_and_reset_if_complete
\* of stop_roll_call returns True, every name in names was committed as
\* used since the previous reset (used_names, with the name just committed,
\* covers names): no name is skipped in a cycle.
C26_NoNameSkipped ==
    [][(/\ call'.op = "stop_roll_call"
        /\ StopCommits(last_selected_name, avoid_repetition)
        /\ IsComplete(names, UsedAfterMark(used_names, last_selected_name,
                                            avoid_repetition), avoid_repetition))
        => Elements(names) \subseteq
              UsedAfterMark(used_names, last_selected_name, avoid_repetition)]_vars

\* C27: with avoid_repetition true throughout, stop_roll_call never commits
\* a name that was already committed since the last reset of used_names,
\* whatever the number of ticks (zero included) between start and stop.
C27_CommitOnce ==
    [][(call'.op = "stop_roll_call"
            /\ StopCommits(last_selected_name, avoid_repetition))
        => last_selected_name \notin used_names]_vars

\* C28: with avoid_repetition true and names non-empty, a running roll
\* eventually shows a name of the roster on some update_name tick (unless
\* the roll is stopped, the mode switched off or the roster emptied).
RollShowsName ==
    call.op = "update_name" /\ Truthy(ret) /\ Contains(names, ret)

C28_RollFindsCandidate ==
    [](roll_timer_active /\ avoid_repetition /\ names # <<>>
        => <>(\/ RollShowsName
              \/ ~roll_timer_active \/ ~avoid_repetition \/ names = <<>>))

\* C29: load_from_file never raises; for an absent file, unparsable JSON or
\* JSON whose names / used_names have the wrong shape it returns False; and
\* whenever it returns False, names and used_names are what they were.
WrongShape(file) ==
    \/ file.kind = "not a dict"
    \/ file.kind = "dict" /\ file.names.shape \notin {"missing", "list"}
    \/ file.kind = "dict" /\ file.used.shape \notin {"missing", "list"}

C29_LoadFailsCleanly ==
    [][call'.op = "load_from_file" =>
        /\ ret' \in {PyTrue, PyFalse}
        /\ (call'.name.kind \in {"absent", "unparsable"} \/ WrongShape(call'.name))
                => ret' = PyFalse
        /\ ret' = PyFalse => (names' = names /\ used_names' = used_names)]_vars

====
